---------------------------- MODULE Spec2Model ----------------------------
(***************************************************************************)
(* Model of lib/index.js of basic-auth-4-express: the constant-time string *)
(* comparator safeCompare, the middleware factory buildMiddleware and the  *)
(* request handler authMiddleware with its two inner functions             *)
(* unauthorized and authorizerCallback.                                    *)
(***************************************************************************)
EXTENDS Integers, Sequences, FiniteSets, TLC

(***************************************************************************)
(* Bounds of the model.                                                    *)
(***************************************************************************)
\* longest string handed to safeCompare in the comparator specification
MaxStrLen == 2
\* number of times one asynchronous authorizer may fire its callback
MaxCallbacks == 2
\* number of request objects
NumReqs == 2

(***************************************************************************)
(* JavaScript values.  Every value is a record [t, s, n]: t is the kind of *)
(* value, s the characters of a string (or a label), n the number of a     *)
(* number or boolean, or the identity of a request object.                 *)
(***************************************************************************)
Undefined == [t |-> "undefined", s |-> <<>>, n |-> 0]
Null == [t |-> "null", s |-> <<>>, n |-> 0]
Str(chars) == [t |-> "string", s |-> chars, n |-> 0]
Num(k) == [t |-> "number", s |-> <<>>, n |-> k]
Bool(b) == [t |-> "boolean", s |-> <<>>, n |-> IF b THEN 1 ELSE 0]
Obj(label) == [t |-> "object", s |-> <<label>>, n |-> 0]
Arr(label) == [t |-> "array", s |-> <<label>>, n |-> 0]
Fn(label) == [t |-> "function", s |-> <<label>>, n |-> 0]
ErrorObj == [t |-> "error", s |-> <<"Error">>, n |-> 0]
ReqObj(r) == [t |-> "request", s |-> <<>>, n |-> r]

\* the typeof operator
TypeOf(v) ==
    IF v.t \in {"null", "object", "array", "error", "request"} THEN "object" ELSE v.t

\* ToBoolean: what !!v, if (v) and v || w test
Truthy(v) ==
    CASE v.t \in {"undefined", "null"} -> FALSE
      [] v.t \in {"number", "boolean"} -> v.n # 0
      [] v.t = "string" -> v.s # <<>>
      [] OTHER -> TRUE

\* bitwise & and | on the int32 values 0 and 1 (booleans convert to 0 and 1)
BitAnd(x, y) == IF x = 1 /\ y = 1 THEN 1 ELSE 0
BitOr(x, y) == IF x = 1 \/ y = 1 THEN 1 ELSE 0
ToInt32(b) == IF b THEN 1 ELSE 0

(***************************************************************************)
(* Strings are sequences of characters; Buffer works on their UTF-8 bytes. *)
(* The alphabet has two ASCII letters, U+0000 (one zero byte, the byte     *)
(* Buffer.alloc fills with) and U+00E9 (two bytes).                        *)
(***************************************************************************)
Chars == {"a", "b", "NUL", "e'"}

Utf8Char(c) ==
    CASE c = "NUL" -> <<0>>
      [] c = "a" -> <<97>>
      [] c = "b" -> <<98>>
      [] c = "e'" -> <<195, 169>>
      [] OTHER -> <<63>>

RECURSIVE Utf8(_)
Utf8(chars) ==
    IF chars = <<>> THEN <<>> ELSE Utf8Char(Head(chars)) \o Utf8(Tail(chars))

\* Buffer.byteLength(string)
ByteLength(chars) == Len(Utf8(chars))

\* Buffer.alloc(size, 0, 'utf8'): size zero bytes
BufferAlloc(size) == [i \in 1..size |-> 0]

\* the bytes buf.write(string) puts at offset 0 of a buffer with room for
\* `room` bytes: whole characters only, a character that does not fit ends it
RECURSIVE Utf8Fitting(_, _)
Utf8Fitting(chars, room) ==
    IF chars = <<>> \/ Len(Utf8Char(Head(chars))) > room
    THEN <<>>
    ELSE Utf8Char(Head(chars))
             \o Utf8Fitting(Tail(chars), room - Len(Utf8Char(Head(chars))))

\* buf.write(string): the buffer after the write
BufferWrite(buf, chars) ==
    LET written == Utf8Fitting(chars, Len(buf))
    IN  [i \in 1..Len(buf) |-> IF i <= Len(written) THEN written[i] ELSE buf[i]]

\* crypto.timingSafeEqual on two buffers of one length
TimingSafeEqual(x, y) == \A i \in 1..Len(x) : x[i] = y[i]

(***************************************************************************)
(* safeCompare(userInput, secret).  The result is [threw, value]:          *)
(* Buffer.byteLength and buf.write throw a TypeError on a non-string.      *)
(***************************************************************************)
SafeCompareNoLength(userInput, secret) ==
    IF userInput.t # "string" \/ secret.t # "string"
    THEN [threw |-> TRUE, value |-> FALSE]
    ELSE LET userInputLength == ByteLength(userInput.s)
             userInputBuffer == BufferWrite(BufferAlloc(userInputLength), userInput.s)
             secretBuffer == BufferWrite(BufferAlloc(userInputLength), secret.s)
         IN  [threw |-> FALSE,
              value |-> TimingSafeEqual(userInputBuffer, secretBuffer)]

SafeCompare(userInput, secret) ==
    IF userInput.t # "string" \/ secret.t # "string"
    THEN [threw |-> TRUE, value |-> FALSE]
    ELSE LET userInputLength == ByteLength(userInput.s)
             secretLength == ByteLength(secret.s)
             userInputBuffer == BufferWrite(BufferAlloc(userInputLength), userInput.s)
             secretBuffer == BufferWrite(BufferAlloc(userInputLength), secret.s)
         IN  [threw |-> FALSE,
              value |-> BitAnd(ToInt32(TimingSafeEqual(userInputBuffer, secretBuffer)),
                               ToInt32(userInputLength = secretLength)) # 0]


(***************************************************************************)
(* State.  options is the object handed to buildMiddleware, phase tells    *)
(* whether buildMiddleware returned or threw, cfg holds the constants of   *)
(* its closure.  The other variables are per request: what auth(req)       *)
(* parsed, req.auth, the calls the authorizer received and what it         *)
(* answered, the completion callbacks fired, the calls of next(), the      *)
(* response object and the exceptions that left the middleware.  obs       *)
(* records what else the handler did for the request: the assignments to   *)
(* req.auth, the req.auth the authorizer was called under, the evaluations *)
(* of realm and unauthorizedResponse, the argument lists of next() and the *)
(* positions the request went through.                                     *)
(* cmpA, cmpB and cmpOut are a direct call safeCompare(cmpA, cmpB).        *)
(***************************************************************************)
VARIABLES options, phase, cfg, pc, hdr, reqAuth, calls, ret, cbCount, cbErr,
          cbApproved, nextCalls, res, thrown, obs, cmpA, cmpB, cmpOut

vars == <<options, phase, cfg, pc, hdr, reqAuth, calls, ret, cbCount, cbErr,
          cbApproved, nextCalls, res, thrown, obs, cmpA, cmpB, cmpOut>>
reqVars == <<pc, hdr, reqAuth, calls, ret, cbCount, cbErr, cbApproved,
             nextCalls, res, thrown, obs>>
cmpVars == <<cmpA, cmpB, cmpOut>>

\* the request objects that exist; Reqs are the ones handled in Spec
AllReqs == 1..NumReqs
Reqs == {1}

(***************************************************************************)
(* The users tables: the enumerable properties of a users object, in       *)
(* for-in order, as <<key, value>> pairs.                                  *)
(***************************************************************************)
UsersOne == Obj("ab:ba")
UsersTwo == Obj("a:b,ab:ba")
EmptyObject == Obj("")

OwnEntries(users) ==
    CASE users = UsersOne -> << <<Str(<<"a", "b">>), Str(<<"b", "a">>)>> >>
      [] users = UsersTwo -> << <<Str(<<"a">>), Str(<<"b">>)>>,
                                <<Str(<<"a", "b">>), Str(<<"b", "a">>)>> >>
      [] OTHER -> <<>>

StaticUsersAuthorizerFn == Fn("staticUsersAuthorizer")
CustomAuthorizerFn == Fn("customAuthorizer")
RealmBlaFn == Fn("realmBla")
GetUnauthorizedResponseFn == Fn("getUnauthorizedResponse")
\* the authorizerCallback closure created for request r
AuthorizerCallbackFn(r) == [t |-> "function", s |-> <<"authorizerCallback">>, n |-> r]

(***************************************************************************)
(* buildMiddleware(options): the constants of the closure, or the          *)
(* AssertionError of one of the two asserts.                               *)
(***************************************************************************)
BuildUsers(opts) == IF Truthy(opts.users) THEN opts.users ELSE EmptyObject

BuildAuthorizer(opts) ==
    IF Truthy(opts.authorizer) THEN opts.authorizer ELSE StaticUsersAuthorizerFn

BuildAsserts(opts) ==
    /\ TypeOf(BuildUsers(opts)) = "object"
    /\ TypeOf(BuildAuthorizer(opts)) = "function"

BuildConfig(opts) ==
    [challenge |-> Truthy(opts.challenge),
     users |-> BuildUsers(opts),
     authorizer |-> BuildAuthorizer(opts),
     isAsync |-> Truthy(opts.authorizeAsync),
     passRequest |-> Truthy(opts.passRequest),
     allowEmptyCredentials |-> Truthy(opts.allowEmptyCredentials),
     unauthorizedResponse |-> opts.unauthorizedResponse,
     realm |-> opts.realm]

NoConfig == BuildConfig([challenge |-> Undefined, users |-> Undefined,
                         authorizer |-> Undefined, authorizeAsync |-> Undefined,
                         passRequest |-> Undefined,
                         allowEmptyCredentials |-> Undefined,
                         unauthorizedResponse |-> Undefined, realm |-> Undefined])


(***************************************************************************)
(* staticUsersAuthorizer(username, password): the for-in loop over users,  *)
(* from entry i on, with the accumulator authorized.  compares counts the  *)
(* calls of safeCompare made, the one that threw included.                 *)
(***************************************************************************)
RECURSIVE StaticUsersLoop(_, _, _, _, _, _)
StaticUsersLoop(entries, i, authorized, compares, username, password) ==
    IF i > Len(entries)
    THEN [threw |-> FALSE, value |-> authorized, compares |-> compares]
    ELSE LET u == SafeCompare(username, entries[i][1])
             p == SafeCompare(password, entries[i][2])
         IN  IF u.threw
             THEN [threw |-> TRUE, value |-> Undefined, compares |-> compares + 1]
             ELSE IF p.threw
             THEN [threw |-> TRUE, value |-> Undefined, compares |-> compares + 2]
             ELSE StaticUsersLoop(entries, i + 1,
                      Num(BitOr(authorized.n,
                                BitAnd(ToInt32(u.value), ToInt32(p.value)))),
                      compares + 2, username, password)

StaticUsersAuthorizer(users, username, password) ==
    StaticUsersLoop(OwnEntries(users), 1, Bool(FALSE), 0, username, password)

\* what a custom synchronous authorizer may return, and what an asynchronous
\* one may pass as approved
ReturnValues == {Bool(TRUE), Bool(FALSE), Num(1), Undefined}
\* what an asynchronous authorizer may pass as err
ErrValues == {Null, Undefined, ErrorObj}

ArgAt(args, i) == IF i <= Len(args) THEN args[i] ELSE Undefined

\* authorizer(...args): the outcomes of the call.  The built-in policy is
\* computed; a custom authorizer returns any value or throws.
AuthorizerOutcomes(config, args) ==
    IF config.authorizer = StaticUsersAuthorizerFn
    THEN {StaticUsersAuthorizer(config.users, ArgAt(args, 1), ArgAt(args, 2))}
    ELSE {[threw |-> TRUE, value |-> Undefined, compares |-> 0]}
             \cup {[threw |-> FALSE, value |-> v, compares |-> 0] : v \in ReturnValues}

(***************************************************************************)
(* ensureFunction(option, defaultValue) applied to the request, and the    *)
(* functions the options may hold.                                         *)
(***************************************************************************)
\* String(v) inside a template literal or a + concatenation
ToStr(v) ==
    CASE v.t = "string" -> v.s
      [] v.t = "null" -> <<"null">>
      [] v.t = "undefined" -> <<"undefined">>
      [] v.t = "boolean" -> IF v.n = 1 THEN <<"true">> ELSE <<"false">>
      [] v.t = "number" -> IF v.n = 1 THEN <<"1">> ELSE <<"0">>
      [] OTHER -> <<"[object Object]">>

ApplyFn(f, req) ==
    CASE f = RealmBlaFn -> Str(<<"bla">>)
      [] f = GetUnauthorizedResponseFn ->
            IF req.auth.set
            THEN Str(<<"Credentials ">> \o ToStr(req.auth.user) \o <<":">>
                         \o ToStr(req.auth.password) \o <<" rejected">>)
            ELSE Str(<<"No credentials provided">>)
      [] OTHER -> Undefined

\* ensureFunction without its default
EnsureFunctionNoDefault(option, defaultValue, req) ==
    IF TypeOf(option) # "function" THEN option ELSE ApplyFn(option, req)

EnsureFunction(option, defaultValue, req) ==
    IF option = Undefined THEN defaultValue
    ELSE IF TypeOf(option) # "function" THEN option
    ELSE ApplyFn(option, req)

(***************************************************************************)
(* unauthorized(): the response object after the call.  challenge is the   *)
(* WWW-Authenticate header (Undefined while unset), via the method that    *)
(* sent the body, sends the number of bodies sent.                         *)
(***************************************************************************)
FreshResponse ==
    [status |-> 0, challenge |-> Undefined, body |-> Undefined, via |-> "none",
     sends |-> 0]

\* a challenge that leaves the realm out
ChallengeStringBare(realmName) == Str(<<"Basic">>)

ChallengeString(realmName) ==
    IF Truthy(realmName)
    THEN Str(<<"Basic realm=\"">> \o ToStr(realmName) \o <<"\"">>)
    ELSE Str(<<"Basic">>)

Unauthorized(config, req, response) ==
    LET realmName == EnsureFunction(config.realm, Undefined, req)
        body == EnsureFunction(config.unauthorizedResponse, Str(<<>>), req)
    IN  [status |-> 401,
         challenge |-> IF config.challenge THEN ChallengeString(realmName)
                       ELSE response.challenge,
         body |-> body,
         via |-> IF TypeOf(body) = "string" THEN "send" ELSE "json",
         sends |-> response.sends + 1]


(***************************************************************************)
(* The inputs: the options of the middleware, what auth(req) parses from   *)
(* the Authorization header of a request, the strings compared directly.   *)
(***************************************************************************)
FlagValues == {Undefined, Bool(TRUE)}
UsersAndAuthorizer ==
    {<<Undefined, Undefined>>, <<UsersOne, Undefined>>, <<UsersTwo, Undefined>>,
     <<Undefined, CustomAuthorizerFn>>, <<Str(<<"a">>), Undefined>>}
RealmOptions == {Undefined, Str(<<>>), Str(<<"te\"st">>), RealmBlaFn}
UnauthorizedResponseOptions ==
    {Undefined, Str(<<"Haaaaaha">>), Obj("foo:bar"), GetUnauthorizedResponseFn}

OptionsOf(ua, challenge, async, pass, empty, body, realm) ==
    [users |-> ua[1], authorizer |-> ua[2], challenge |-> challenge,
     authorizeAsync |-> async, passRequest |-> pass,
     allowEmptyCredentials |-> empty, unauthorizedResponse |-> body,
     realm |-> realm]

OptionSets ==
    {OptionsOf(ua, c, a, p, e, b, rl) :
        ua \in UsersAndAuthorizer, c \in FlagValues, a \in FlagValues,
        p \in FlagValues, e \in FlagValues, b \in UnauthorizedResponseOptions,
        rl \in RealmOptions}

\* auth(req): undefined without a well-formed header, else {name, pass}
NoAuthentication == [present |-> FALSE, name |-> Null, pass |-> Null]
Authentications ==
    {NoAuthentication}
        \cup {[present |-> TRUE, name |-> Str(n), pass |-> Str(p)] :
                 n \in {<<"a">>, <<"a", "b">>}, p \in {<<"b">>, <<"b", "a">>}}

StringsUpTo(n) == UNION {[1..k -> Chars] : k \in 0..n}

NoAuth == [set |-> FALSE, user |-> Undefined, password |-> Undefined]
NoReturn == [threw |-> FALSE, value |-> Undefined, compares |-> 0]

NoObs ==
    [writes |-> 0, atCall |-> NoAuth, realmEvals |-> 0, bodyEvals |-> 0,
     nextArgs |-> <<>>, path |-> <<"Start">>]

IdleRequests ==
    /\ pc = [r \in AllReqs |-> "start"]
    /\ hdr = [r \in AllReqs |-> NoAuthentication]
    /\ reqAuth = [r \in AllReqs |-> NoAuth]
    /\ calls = [r \in AllReqs |-> <<>>]
    /\ ret = [r \in AllReqs |-> NoReturn]
    /\ cbCount = [r \in AllReqs |-> 0]
    /\ cbErr = [r \in AllReqs |-> Undefined]
    /\ cbApproved = [r \in AllReqs |-> Undefined]
    /\ nextCalls = [r \in AllReqs |-> 0]
    /\ res = [r \in AllReqs |-> FreshResponse]
    /\ thrown = [r \in AllReqs |-> 0]
    /\ obs = [r \in AllReqs |-> NoObs]

NoCompare == [done |-> FALSE, threw |-> FALSE, value |-> FALSE]

Init ==
    /\ options \in OptionSets
    /\ phase = "unbuilt"
    /\ cfg = NoConfig
    /\ IdleRequests
    /\ cmpA = Str(<<>>) /\ cmpB = Str(<<>>) /\ cmpOut = NoCompare

(***************************************************************************)
(* buildMiddleware(options)                                                *)
(***************************************************************************)
Build ==
    /\ phase = "unbuilt"
    /\ IF BuildAsserts(options)
       THEN phase' = "built" /\ cfg' = BuildConfig(options)
       ELSE phase' = "failed" /\ cfg' = cfg
    /\ UNCHANGED <<options, reqVars, cmpVars>>

(***************************************************************************)
(* authMiddleware(req, res, next) for request r, up to its return.         *)
(***************************************************************************)
\* line 60 with the test of allowEmptyCredentials inverted
ShortCircuitsInverted(config, authentication) ==
    ~authentication.present /\ config.allowEmptyCredentials

\* the early return of line 60
ShortCircuits(config, authentication) ==
    ~authentication.present /\ ~config.allowEmptyCredentials

\* the authorizer call without the request object
AuthorizerArgsNoRequest(config, r, name, pass) ==
    <<name, pass>>
        \o (IF config.isAsync THEN <<AuthorizerCallbackFn(r)>> ELSE <<>>)

\* the argument list of the authorizer call, lines 65 to 78
AuthorizerArgs(config, r, name, pass) ==
    (IF config.passRequest THEN <<ReqObj(r)>> ELSE <<>>)
        \o <<name, pass>>
        \o (IF config.isAsync THEN <<AuthorizerCallbackFn(r)>> ELSE <<>>)

\* the destructuring with an empty object as the fallback
CredentialsUndefined(authentication) ==
    IF authentication.present
    THEN [name |-> authentication.name, pass |-> authentication.pass]
    ELSE [name |-> Undefined, pass |-> Undefined]

\* the destructuring of lines 56 to 58
Credentials(authentication) ==
    IF authentication.present
    THEN [name |-> authentication.name, pass |-> authentication.pass]
    ELSE [name |-> Null, pass |-> Null]

\* req.auth with user and password exchanged
AttachedAuthSwapped(name, pass) == [set |-> TRUE, user |-> pass, password |-> name]

\* the value line 63 assigns to req.auth
AttachedAuth(name, pass) == [set |-> TRUE, user |-> name, password |-> pass]

\* lines 65 to 79 without the return of line 66: an asynchronous authorizer
\* that returns something truthy goes on to next()
AfterAuthorizerNoReturn(config, out) ==
    CASE out.threw -> "failed"
      [] ~out.threw /\ Truthy(out.value) -> "allowed"
      [] ~out.threw /\ ~Truthy(out.value) /\ config.isAsync -> "pending"
      [] OTHER -> "denied"

\* lines 65 to 79: what follows the call of the authorizer with outcome out
AfterAuthorizer(config, out) ==
    CASE out.threw -> "failed"
      [] ~out.threw /\ config.isAsync -> "pending"
      [] ~out.threw /\ ~config.isAsync /\ Truthy(out.value) -> "allowed"
      [] OTHER -> "denied"

\* next(err), the error-first idiom
NextArgumentsWithError(err) == <<err>>

\* the argument list of next() at lines 79 and 105
NextArguments(err) == <<>>

\* unauthorized() in obs: realm(req) is evaluated under challenge only,
\* getResponseBody(req) always
ObserveUnauthorized(config, o) ==
    [o EXCEPT !.realmEvals = IF config.challenge THEN @ + 1 ELSE @,
              !.bodyEvals = @ + 1]

AuthMiddleware(r, authentication) ==
    LET name == Credentials(authentication).name
        pass == Credentials(authentication).pass
        auth == AttachedAuth(name, pass)
        args == AuthorizerArgs(cfg, r, name, pass)
        parsed == [obs[r] EXCEPT !.path = @ \o <<"CredentialsParsed">>]
        called == [parsed EXCEPT !.writes = @ + 1, !.atCall = auth]
    IN  /\ phase = "built"
        /\ pc[r] = "start"
        /\ hdr' = [hdr EXCEPT ![r] = authentication]
        /\ IF ShortCircuits(cfg, authentication)
           THEN /\ res' = [res EXCEPT ![r] =
                              Unauthorized(cfg, [id |-> r, auth |-> reqAuth[r]], @)]
                /\ pc' = [pc EXCEPT ![r] = "denied"]
                /\ obs' = [obs EXCEPT ![r] =
                              ObserveUnauthorized(cfg,
                                  [parsed EXCEPT !.path = @ \o <<"Denied">>])]
                /\ UNCHANGED <<reqAuth, calls, ret, nextCalls, thrown>>
           ELSE /\ reqAuth' = [reqAuth EXCEPT ![r] = auth]
                /\ calls' = [calls EXCEPT ![r] = Append(@, args)]
                /\ \E out \in AuthorizerOutcomes(cfg, args) :
                      /\ ret' = [ret EXCEPT ![r] = out]
                      /\ CASE AfterAuthorizer(cfg, out) = "failed" ->
                                /\ thrown' = [thrown EXCEPT ![r] = @ + 1]
                                /\ pc' = [pc EXCEPT ![r] = "failed"]
                                /\ obs' = [obs EXCEPT ![r] = called]
                                /\ UNCHANGED <<nextCalls, res>>
                           [] AfterAuthorizer(cfg, out) = "pending" ->
                                /\ pc' = [pc EXCEPT ![r] = "pending"]
                                /\ obs' = [obs EXCEPT ![r] =
                                              [called EXCEPT !.path =
                                                  @ \o <<"AuthorizerPending">>]]
                                /\ UNCHANGED <<nextCalls, res, thrown>>
                           [] AfterAuthorizer(cfg, out) = "allowed" ->
                                /\ nextCalls' = [nextCalls EXCEPT ![r] = @ + 1]
                                /\ pc' = [pc EXCEPT ![r] = "allowed"]
                                /\ obs' = [obs EXCEPT ![r] =
                                              [called EXCEPT
                                                  !.nextArgs = Append(@, NextArguments(Undefined)),
                                                  !.path = @ \o <<"Allowed">>]]
                                /\ UNCHANGED <<res, thrown>>
                           [] OTHER ->
                                /\ res' = [res EXCEPT ![r] =
                                              Unauthorized(cfg, [id |-> r, auth |-> auth], @)]
                                /\ pc' = [pc EXCEPT ![r] = "denied"]
                                /\ obs' = [obs EXCEPT ![r] =
                                              ObserveUnauthorized(cfg,
                                                  [called EXCEPT !.path = @ \o <<"Denied">>])]
                                /\ UNCHANGED <<nextCalls, thrown>>
        /\ UNCHANGED <<options, phase, cfg, cbCount, cbErr, cbApproved, cmpVars>>

(***************************************************************************)
(* authorizerCallback(err, approved) of request r, fired by the authorizer *)
(* that received it.                                                       *)
(***************************************************************************)
\* a callback that never looks at err
IfErrorIgnored(err) == FALSE

\* assert.ifError(value) throws unless value is null or undefined
IfErrorThrows(err) == err.t \notin {"null", "undefined"}

\* the custom authorizer was handed the callback of request r
HoldsCallback(r) ==
    /\ cfg.authorizer # StaticUsersAuthorizerFn
    /\ \E i \in DOMAIN calls[r] :
          \E j \in DOMAIN calls[r][i] : calls[r][i][j] = AuthorizerCallbackFn(r)

\* authorizerCallback without the return in front of next(): an approval
\* falls through to unauthorized()
AuthorizerCallbackFallsThrough(r, err, approved) ==
    /\ phase = "built"
    /\ HoldsCallback(r)
    /\ cbCount[r] < MaxCallbacks
    /\ cbCount' = [cbCount EXCEPT ![r] = @ + 1]
    /\ cbErr' = [cbErr EXCEPT ![r] = err]
    /\ cbApproved' = [cbApproved EXCEPT ![r] = approved]
    /\ IF IfErrorThrows(err)
       THEN /\ thrown' = [thrown EXCEPT ![r] = @ + 1]
            /\ pc' = [pc EXCEPT ![r] = "failed"]
            /\ UNCHANGED <<nextCalls, res, obs>>
       ELSE /\ nextCalls' = [nextCalls EXCEPT ![r] =
                                IF Truthy(approved) THEN @ + 1 ELSE @]
            /\ res' = [res EXCEPT ![r] =
                          Unauthorized(cfg, [id |-> r, auth |-> reqAuth[r]], @)]
            /\ pc' = [pc EXCEPT ![r] = "denied"]
            /\ obs' = [obs EXCEPT ![r] =
                          ObserveUnauthorized(cfg,
                              [@ EXCEPT !.nextArgs =
                                            IF Truthy(approved)
                                            THEN Append(@, NextArguments(err)) ELSE @,
                                        !.path = @ \o <<"Denied">>])]
            /\ UNCHANGED thrown
    /\ UNCHANGED <<options, phase, cfg, hdr, reqAuth, calls, ret, cmpVars>>

\* authorizerCallback behind a record of the decision: a callback that
\* comes after the first is counted and otherwise ignored
AuthorizerCallbackOnce(r, err, approved) ==
    /\ phase = "built"
    /\ HoldsCallback(r)
    /\ cbCount[r] < MaxCallbacks
    /\ cbCount' = [cbCount EXCEPT ![r] = @ + 1]
    /\ cbErr' = [cbErr EXCEPT ![r] = err]
    /\ cbApproved' = [cbApproved EXCEPT ![r] = approved]
    /\ CASE cbCount[r] > 0 ->
              UNCHANGED <<thrown, pc, nextCalls, res, obs>>
         [] cbCount[r] = 0 /\ IfErrorThrows(err) ->
              /\ thrown' = [thrown EXCEPT ![r] = @ + 1]
              /\ pc' = [pc EXCEPT ![r] = "failed"]
              /\ UNCHANGED <<nextCalls, res, obs>>
         [] cbCount[r] = 0 /\ ~IfErrorThrows(err) /\ Truthy(approved) ->
              /\ nextCalls' = [nextCalls EXCEPT ![r] = @ + 1]
              /\ pc' = [pc EXCEPT ![r] = "allowed"]
              /\ obs' = [obs EXCEPT ![r] =
                            [@ EXCEPT !.nextArgs = Append(@, NextArguments(err)),
                                      !.path = @ \o <<"Allowed">>]]
              /\ UNCHANGED <<res, thrown>>
         [] OTHER ->
              /\ res' = [res EXCEPT ![r] =
                            Unauthorized(cfg, [id |-> r, auth |-> reqAuth[r]], @)]
              /\ pc' = [pc EXCEPT ![r] = "denied"]
              /\ obs' = [obs EXCEPT ![r] =
                            ObserveUnauthorized(cfg,
                                [@ EXCEPT !.path = @ \o <<"Denied">>])]
              /\ UNCHANGED <<nextCalls, thrown>>
    /\ UNCHANGED <<options, phase, cfg, hdr, reqAuth, calls, ret, cmpVars>>

\* authorizerCallback with req, res and next kept in variables of the
\* middleware instance instead of the closure of one call: it resolves the
\* request that entered last (here: the highest one that entered)
AuthorizerCallbackShared(r, err, approved) ==
    LET q == CHOOSE x \in AllReqs :
                 /\ pc[x] # "start"
                 /\ \A y \in AllReqs : pc[y] # "start" => y <= x
    IN  /\ phase = "built"
        /\ HoldsCallback(r)
        /\ cbCount[r] < MaxCallbacks
        /\ cbCount' = [cbCount EXCEPT ![r] = @ + 1]
        /\ cbErr' = [cbErr EXCEPT ![r] = err]
        /\ cbApproved' = [cbApproved EXCEPT ![r] = approved]
        /\ CASE IfErrorThrows(err) ->
                  /\ thrown' = [thrown EXCEPT ![r] = @ + 1]
                  /\ pc' = [pc EXCEPT ![r] = "failed"]
                  /\ UNCHANGED <<nextCalls, res, obs>>
             [] ~IfErrorThrows(err) /\ Truthy(approved) ->
                  /\ nextCalls' = [nextCalls EXCEPT ![q] = @ + 1]
                  /\ pc' = [pc EXCEPT ![q] = "allowed"]
                  /\ obs' = [obs EXCEPT ![q] =
                                [@ EXCEPT !.nextArgs = Append(@, NextArguments(err)),
                                          !.path = @ \o <<"Allowed">>]]
                  /\ UNCHANGED <<res, thrown>>
             [] OTHER ->
                  /\ res' = [res EXCEPT ![q] =
                                Unauthorized(cfg, [id |-> q, auth |-> reqAuth[q]], @)]
                  /\ pc' = [pc EXCEPT ![q] = "denied"]
                  /\ obs' = [obs EXCEPT ![q] =
                                ObserveUnauthorized(cfg,
                                    [@ EXCEPT !.path = @ \o <<"Denied">>])]
                  /\ UNCHANGED <<nextCalls, thrown>>
        /\ UNCHANGED <<options, phase, cfg, hdr, reqAuth, calls, ret, cmpVars>>

AuthorizerCallback(r, err, approved) ==
    /\ phase = "built"
    /\ HoldsCallback(r)
    /\ cbCount[r] < MaxCallbacks
    /\ cbCount' = [cbCount EXCEPT ![r] = @ + 1]
    /\ cbErr' = [cbErr EXCEPT ![r] = err]
    /\ cbApproved' = [cbApproved EXCEPT ![r] = approved]
    /\ CASE IfErrorThrows(err) ->
              /\ thrown' = [thrown EXCEPT ![r] = @ + 1]
              /\ pc' = [pc EXCEPT ![r] = "failed"]
              /\ UNCHANGED <<nextCalls, res, obs>>
         [] ~IfErrorThrows(err) /\ Truthy(approved) ->
              /\ nextCalls' = [nextCalls EXCEPT ![r] = @ + 1]
              /\ pc' = [pc EXCEPT ![r] = "allowed"]
              /\ obs' = [obs EXCEPT ![r] =
                            [@ EXCEPT !.nextArgs = Append(@, NextArguments(err)),
                                      !.path = @ \o <<"Allowed">>]]
              /\ UNCHANGED <<res, thrown>>
         [] OTHER ->
              /\ res' = [res EXCEPT ![r] =
                            Unauthorized(cfg, [id |-> r, auth |-> reqAuth[r]], @)]
              /\ pc' = [pc EXCEPT ![r] = "denied"]
              /\ obs' = [obs EXCEPT ![r] =
                            ObserveUnauthorized(cfg,
                                [@ EXCEPT !.path = @ \o <<"Denied">>])]
              /\ UNCHANGED <<nextCalls, thrown>>
    /\ UNCHANGED <<options, phase, cfg, hdr, reqAuth, calls, ret, cmpVars>>

HandleRequest == \E r \in Reqs : \E a \in Authentications : AuthMiddleware(r, a)

FireCallback ==
    \E r \in Reqs : \E err \in ErrValues : \E approved \in ReturnValues :
        AuthorizerCallback(r, err, approved)

Next == Build \/ HandleRequest \/ FireCallback

Spec == Init /\ [][Next]_vars

(***************************************************************************)
(* A direct call of the exported safeCompare on two strings.               *)
(***************************************************************************)
InitCmp ==
    /\ options \in {OptionsOf(<<Undefined, Undefined>>, Undefined, Undefined,
                              Undefined, Undefined, Undefined, Undefined)}
    /\ phase = "unbuilt"
    /\ cfg = NoConfig
    /\ IdleRequests
    /\ cmpA \in {Str(s) : s \in StringsUpTo(MaxStrLen)}
    /\ cmpB \in {Str(s) : s \in StringsUpTo(MaxStrLen)}
    /\ cmpOut = NoCompare

SafeCompareCall ==
    /\ ~cmpOut.done
    /\ cmpOut' = [done |-> TRUE,
                  threw |-> SafeCompare(cmpA, cmpB).threw,
                  value |-> SafeCompare(cmpA, cmpB).value]
    /\ UNCHANGED <<options, phase, cfg, reqVars, cmpA, cmpB>>

NextCmp == SafeCompareCall

SpecCmp == InitCmp /\ [][NextCmp]_vars


(***************************************************************************)
(* buildMiddleware on its own, over the values users and authorizer may    *)
(* be given.                                                               *)
(***************************************************************************)
UsersValues ==
    {Undefined, Num(0), Num(1), Str(<<>>), Str(<<"a">>), Bool(FALSE),
     Bool(TRUE), Arr("[]"), UsersOne, UsersTwo, CustomAuthorizerFn}
AuthorizerValues ==
    {Undefined, Num(0), Num(1), Str(<<>>), Str(<<"a">>), Bool(FALSE),
     Bool(TRUE), Obj("{}"), CustomAuthorizerFn}

InitBuild ==
    /\ options \in {OptionsOf(<<u, a>>, Undefined, Undefined, Undefined,
                              Undefined, Undefined, Undefined) :
                       u \in UsersValues, a \in AuthorizerValues}
    /\ phase = "unbuilt"
    /\ cfg = NoConfig
    /\ IdleRequests
    /\ cmpA = Str(<<>>) /\ cmpB = Str(<<>>) /\ cmpOut = NoCompare

NextBuild == Build

SpecBuild == InitBuild /\ [][NextBuild]_vars

(***************************************************************************)
(* One middleware instance with a custom asynchronous authorizer handling  *)
(* all the requests at once: they enter in any order and the authorizer    *)
(* fires the callback of each once, in any order.                          *)
(***************************************************************************)
ConcOptionSets ==
    {OptionsOf(<<Undefined, CustomAuthorizerFn>>, Bool(TRUE), Bool(TRUE), p,
               Undefined, GetUnauthorizedResponseFn, RealmBlaFn) :
        p \in FlagValues}

ConcAuthentications ==
    {NoAuthentication,
     [present |-> TRUE, name |-> Str(<<"a">>), pass |-> Str(<<"b">>)],
     [present |-> TRUE, name |-> Str(<<"a", "b">>), pass |-> Str(<<"b", "a">>)]}

InitConc ==
    /\ options \in ConcOptionSets
    /\ phase = "unbuilt"
    /\ cfg = NoConfig
    /\ IdleRequests
    /\ cmpA = Str(<<>>) /\ cmpB = Str(<<>>) /\ cmpOut = NoCompare

HandleConc ==
    \E r \in AllReqs : \E a \in ConcAuthentications : AuthMiddleware(r, a)

FireConc ==
    \E r \in AllReqs : \E err \in {Null, ErrorObj} :
        \E approved \in {Bool(TRUE), Bool(FALSE)} :
            cbCount[r] = 0 /\ AuthorizerCallback(r, err, approved)

NextConc == Build \/ HandleConc \/ FireConc

SpecConc == InitConc /\ [][NextConc]_vars


(***************************************************************************)
(* Properties.                                                             *)
(***************************************************************************)
\* the two forms of "no error" an error-first callback is fired with
NoError(err) == err = Null \/ err = Undefined

\* the call of the authorizer for request r returned (it did not throw)
Returned(r) == calls[r] # <<>> /\ ~ret[r].threw

\* an asynchronous authorizer has fired the callback of r at most once, and
\* without an error; a synchronous one has no callback to fire
CalledBackProperly(r) ==
    cfg.isAsync => cbCount[r] = 0 \/ (cbCount[r] = 1 /\ NoError(cbErr[r]))

\* the answer of the authorizer for r is in, and it approves
Approves(r) ==
    IF cfg.isAsync
    THEN cbCount[r] = 1 /\ NoError(cbErr[r]) /\ Truthy(cbApproved[r])
    ELSE Returned(r) /\ Truthy(ret[r].value)

\* the request r was short-circuited for its missing credentials
MissingCredentials(r) ==
    pc[r] # "start" /\ ~hdr[r].present /\ ~Truthy(options.allowEmptyCredentials)

\* the answer of the authorizer for r is in, and it rejects
Rejects(r) ==
    IF cfg.isAsync
    THEN cbCount[r] = 1 /\ NoError(cbErr[r]) /\ ~Truthy(cbApproved[r])
    ELSE Returned(r) /\ ~Truthy(ret[r].value)

\* C1: safeCompare(a, b) on two strings never throws and returns true exactly
\* when a and b have the same UTF-8 bytes (so it is true on (s, s), false on
\* (s, s + "x") and false on a proper prefix in either argument order).
C1_SafeCompareIsByteEquality ==
    cmpOut.done =>
        /\ ~cmpOut.threw
        /\ cmpOut.value <=> (Utf8(cmpA.s) = Utf8(cmpB.s))

\* C1 witness: "a\u0000" against its prefix "a", where the zero padding makes
\* the two buffers equal and only the lengths differ; the answer is false
C1_Witness ==
    /\ cmpOut.done
    /\ cmpA = Str(<<"a", "NUL">>)
    /\ cmpB = Str(<<"a">>)
    /\ ~cmpOut.value

\* C2 (as claimed): with no custom authorizer, a request that carries
\* credentials (u, p) is allowed exactly when the users mapping has the
\* entry u: p.
C2_StaticPolicyAllowsExactMatches ==
    \A r \in AllReqs :
        (phase = "built" /\ options.authorizer = Undefined
            /\ pc[r] # "start" /\ hdr[r].present)
        => (nextCalls[r] >= 1
              <=> \E i \in DOMAIN OwnEntries(cfg.users) :
                      OwnEntries(cfg.users)[i] = <<hdr[r].name, hdr[r].pass>>)

\* C9 (as claimed): buildMiddleware throws whenever it is given a users
\* option that is not a mapping or an authorizer option that is not callable.
C9_BuildRejectsBadOptions ==
    (phase # "unbuilt"
        /\ \/ (options.users # Undefined /\ options.users.t # "object")
           \/ (options.authorizer # Undefined /\ options.authorizer.t # "function"))
    => phase = "failed"


\* C3: when the authorizer answers properly (a synchronous return, or one
\* callback without error), a request gets one outcome at most: next() exactly
\* once and no 401 when the authorizer approves, one 401 and no next() when
\* it rejects or the credentials are missing.
C3_OneOutcomePerRequest ==
    \A r \in AllReqs :
        CalledBackProperly(r) =>
            /\ nextCalls[r] + res[r].sends <= 1
            /\ Approves(r) => nextCalls[r] = 1 /\ res[r].sends = 0
            /\ (Rejects(r) \/ MissingCredentials(r)) =>
                  res[r].sends = 1 /\ res[r].status = 401 /\ nextCalls[r] = 0

\* C3 witness: a request-aware asynchronous authorizer approved through its
\* callback and next() ran once
C3_Witness ==
    \E r \in AllReqs :
        /\ cfg.isAsync /\ cfg.passRequest
        /\ cbCount[r] = 1 /\ Approves(r)
        /\ nextCalls[r] = 1 /\ res[r].sends = 0

\* C4: a request without credentials, with allowEmptyCredentials off, gets a
\* 401; its authorizer is never called, its callback never fires and next()
\* is never called.
C4_MissingCredentialsSkipAuthorizer ==
    \A r \in AllReqs :
        MissingCredentials(r) =>
            /\ res[r].status = 401 /\ res[r].sends = 1
            /\ calls[r] = <<>>
            /\ cbCount[r] = 0
            /\ nextCalls[r] = 0

\* C4 witness: the short circuit under a custom asynchronous authorizer
C4_Witness ==
    \E r \in AllReqs :
        /\ MissingCredentials(r)
        /\ cfg.isAsync /\ cfg.authorizer = CustomAuthorizerFn
        /\ res[r].status = 401

\* C5: a request without credentials, with allowEmptyCredentials on, has its
\* authorizer called once with null for the username and the password and
\* req.auth set to {user: null, password: null}; when the authorizer approves,
\* next() runs and no 401 is sent.
C5_EmptyCredentialsReachAuthorizer ==
    \A r \in AllReqs :
        (pc[r] # "start" /\ ~hdr[r].present /\ Truthy(options.allowEmptyCredentials))
        => /\ Len(calls[r]) = 1
           /\ LET k == IF Truthy(options.passRequest) THEN 1 ELSE 0
              IN  calls[r][1][k + 1] = Null /\ calls[r][1][k + 2] = Null
           /\ reqAuth[r] = [set |-> TRUE, user |-> Null, password |-> Null]
           /\ (CalledBackProperly(r) /\ Approves(r)) =>
                 nextCalls[r] = 1 /\ res[r].sends = 0

\* C5 witness: a custom synchronous authorizer approved the null credentials
C5_Witness ==
    \E r \in AllReqs :
        /\ pc[r] = "allowed" /\ ~hdr[r].present
        /\ ~cfg.isAsync /\ cfg.authorizer = CustomAuthorizerFn
        /\ calls[r] = << <<Null, Null>> >>
        /\ nextCalls[r] = 1

\* the WWW-Authenticate value the configured realm calls for
ExpectedChallenge ==
    CASE options.realm = RealmBlaFn -> <<"Basic realm=\"", "bla", "\"">>
      [] options.realm.t = "string" /\ options.realm.s # <<>> ->
            <<"Basic realm=\"">> \o options.realm.s \o <<"\"">>
      [] OTHER -> <<"Basic">>

\* C6: after a denial the WWW-Authenticate header is unset when challenge is
\* off, and is Basic realm="<v>" for a non-empty realm v (verbatim) or Basic
\* without one when challenge is on; without a denial (so on Allow) the header
\* is never set.
C6_ChallengeHeader ==
    \A r \in AllReqs :
        /\ res[r].sends = 0 => res[r].challenge = Undefined
        /\ (CalledBackProperly(r) /\ nextCalls[r] >= 1) => res[r].challenge = Undefined
        /\ res[r].sends >= 1 =>
              res[r].challenge = IF Truthy(options.challenge)
                                 THEN Str(ExpectedChallenge) ELSE Undefined

\* C6 witness: an authorizer rejection answered with a realm that holds a
\* double quote
C6_Witness ==
    \E r \in AllReqs :
        /\ hdr[r].present /\ res[r].sends = 1
        /\ options.realm = Str(<<"te\"st">>)
        /\ res[r].challenge = Str(<<"Basic realm=\"", "te\"st", "\"">>)

\* the body the configured unauthorizedResponse calls for
ExpectedBody(r) ==
    CASE options.unauthorizedResponse = Undefined -> Str(<<>>)
      [] options.unauthorizedResponse = GetUnauthorizedResponseFn ->
            ApplyFn(GetUnauthorizedResponseFn, [id |-> r, auth |-> reqAuth[r]])
      [] OTHER -> options.unauthorizedResponse

\* C7: every denial has status 401 and the body unauthorizedResponse gives
\* (the constant, the function applied to the request, or '' by default),
\* sent with send when it is a string and with json otherwise.
C7_DenialBody ==
    \A r \in AllReqs :
        res[r].sends >= 1 =>
            /\ res[r].status = 401
            /\ res[r].body = ExpectedBody(r)
            /\ res[r].via = IF ExpectedBody(r).t = "string" THEN "send" ELSE "json"

\* C7 witness: the default body, the empty string, sent as text
C7_Witness ==
    \E r \in AllReqs :
        /\ res[r].sends = 1
        /\ options.unauthorizedResponse = Undefined
        /\ res[r].body = Str(<<>>) /\ res[r].via = "send"

\* the argument list the two flags select
ExpectedArgs(r) ==
    CASE Truthy(options.passRequest) /\ Truthy(options.authorizeAsync) ->
            <<ReqObj(r), hdr[r].name, hdr[r].pass, AuthorizerCallbackFn(r)>>
      [] ~Truthy(options.passRequest) /\ Truthy(options.authorizeAsync) ->
            <<hdr[r].name, hdr[r].pass, AuthorizerCallbackFn(r)>>
      [] Truthy(options.passRequest) /\ ~Truthy(options.authorizeAsync) ->
            <<ReqObj(r), hdr[r].name, hdr[r].pass>>
      [] OTHER -> <<hdr[r].name, hdr[r].pass>>

\* C8: a custom authorizer is called with (req, name, pass, callback),
\* (name, pass, callback), (req, name, pass) or (name, pass) as passRequest
\* and authorizeAsync say, req being the request handled; a synchronous one
\* decides by the truthiness of what it returns, an asynchronous one by the
\* approved argument of its callback and not by what it returns.
C8_AuthorizerSignature ==
    \A r \in AllReqs :
        (phase = "built" /\ options.authorizer = CustomAuthorizerFn) =>
            /\ \A i \in DOMAIN calls[r] : calls[r][i] = ExpectedArgs(r)
            /\ ~Truthy(options.authorizeAsync) =>
                  /\ cbCount[r] = 0
                  /\ Returned(r) =>
                        /\ nextCalls[r] = IF Truthy(ret[r].value) THEN 1 ELSE 0
                        /\ res[r].sends = IF Truthy(ret[r].value) THEN 0 ELSE 1
            /\ Truthy(options.authorizeAsync) =>
                  /\ (cbCount[r] = 0 /\ calls[r] # <<>>) =>
                        nextCalls[r] = 0 /\ res[r].sends = 0
                  /\ (cbCount[r] = 1 /\ NoError(cbErr[r])) =>
                        /\ nextCalls[r] = IF Truthy(cbApproved[r]) THEN 1 ELSE 0
                        /\ res[r].sends = IF Truthy(cbApproved[r]) THEN 0 ELSE 1

\* C8 witness: a request-aware asynchronous authorizer returned true and
\* rejected through its callback: the request got a 401
C8_Witness ==
    \E r \in AllReqs :
        /\ options.authorizer = CustomAuthorizerFn
        /\ calls[r] = << <<ReqObj(r), Str(<<"a">>), Str(<<"b">>),
                           AuthorizerCallbackFn(r)>> >>
        /\ ret[r].value = Bool(TRUE)
        /\ cbCount[r] = 1 /\ cbErr[r] = Null /\ cbApproved[r] = Bool(FALSE)
        /\ res[r].sends = 1 /\ nextCalls[r] = 0

\* C10: a callback fired with an error (a value other than null and
\* undefined) throws: in that step next() is not called and the response is
\* left as it was (no status, header or body), whatever approved is.
C10_CallbackErrorPropagates ==
    [][\A r \in AllReqs :
          (cbCount'[r] = cbCount[r] + 1 /\ ~NoError(cbErr'[r])) =>
              /\ thrown'[r] = thrown[r] + 1
              /\ nextCalls'[r] = nextCalls[r]
              /\ res'[r] = res[r]]_vars

\* C10 witness: the first callback carried an error and a truthy approved;
\* the request has an exception and neither next() nor a response
C10_Witness ==
    \E r \in AllReqs :
        /\ cbCount[r] = 1 /\ cbErr[r] = ErrorObj /\ cbApproved[r] = Bool(TRUE)
        /\ Truthy(options.challenge)
        /\ thrown[r] = 1 /\ nextCalls[r] = 0 /\ res[r] = FreshResponse


\* the credentials of r match an entry of the users mapping exactly
MatchesEntry(r) ==
    /\ hdr[r].present
    /\ \E i \in DOMAIN OwnEntries(cfg.users) :
          OwnEntries(cfg.users)[i] = <<hdr[r].name, hdr[r].pass>>

\* C11 (as claimed): under the built-in policy, called as (name, pass) and
\* synchronously, a request whose credentials are missing or match no entry
\* ends in one 401 and in no exception, allowEmptyCredentials included.
C11_BadCredentialsAreDenied ==
    \A r \in AllReqs :
        (phase = "built" /\ options.authorizer = Undefined
            /\ ~cfg.isAsync /\ ~cfg.passRequest
            /\ pc[r] # "start" /\ ~MatchesEntry(r))
        => /\ thrown[r] = 0
           /\ res[r].sends = 1 /\ res[r].status = 401

\* C13 (as claimed): every call of the built-in policy makes 2n calls of
\* safeCompare for a users mapping with n entries.
C13_StaticPolicyComparesEveryEntry ==
    \A r \in AllReqs :
        (phase = "built" /\ options.authorizer = Undefined /\ calls[r] # <<>>)
        => ret[r].compares = 2 * Len(OwnEntries(cfg.users))


\* C12: a request that is not short-circuited has req.auth assigned once, to
\* the parsed name and password (null and null without a header), before the
\* authorizer is called, and keeps that value whatever happens later, so that
\* getUnauthorizedResponse reports the attempted credentials; a
\* short-circuited request never has req.auth assigned.
C12_CredentialsAttachedOnce ==
    \A r \in AllReqs :
        /\ (pc[r] = "start" \/ MissingCredentials(r)) =>
              reqAuth[r] = NoAuth /\ obs[r].writes = 0
        /\ (pc[r] # "start" /\ ~MissingCredentials(r)) =>
              /\ reqAuth[r] = [set |-> TRUE, user |-> hdr[r].name,
                               password |-> hdr[r].pass]
              /\ obs[r].writes = 1
              /\ calls[r] # <<>> /\ obs[r].atCall = reqAuth[r]
        /\ (res[r].sends >= 1
              /\ options.unauthorizedResponse = GetUnauthorizedResponseFn) =>
              res[r].body =
                  IF MissingCredentials(r)
                  THEN Str(<<"No credentials provided">>)
                  ELSE Str(<<"Credentials ">> \o ToStr(hdr[r].name) \o <<":">>
                               \o ToStr(hdr[r].pass) \o <<" rejected">>)

\* C12 witness: an asynchronous rejection of a:ba, reported in the body
C12_Witness ==
    \E r \in AllReqs :
        /\ cbCount[r] = 1 /\ res[r].sends = 1
        /\ reqAuth[r] = [set |-> TRUE, user |-> Str(<<"a">>),
                         password |-> Str(<<"b", "a">>)]
        /\ res[r].body = Str(<<"Credentials ", "a", ":", "b", "a", " rejected">>)


\* all that the model holds about request q
ReqState(q) ==
    <<pc[q], hdr[q], reqAuth[q], calls[q], ret[q], cbCount[q], cbErr[q],
      cbApproved[q], nextCalls[q], res[q], thrown[q], obs[q]>>

\* an asynchronous authorizer was called for r and has not called back
AwaitingCallback(r) == cfg.isAsync /\ calls[r] # <<>> /\ cbCount[r] = 0

\* C14: from the call of an asynchronous authorizer to the firing of its
\* callback nothing is done for the request (no next(), no status, header or
\* body, no evaluation of realm or unauthorizedResponse), and no step other
\* than its callback changes anything of the request: without the callback
\* it stays as it is, with no timeout, retry or cancellation.
C14_NothingBeforeCallback ==
    /\ [](\A r \in AllReqs :
             AwaitingCallback(r) =>
                 /\ nextCalls[r] = 0 /\ obs[r].nextArgs = <<>>
                 /\ res[r] = FreshResponse
                 /\ obs[r].realmEvals = 0 /\ obs[r].bodyEvals = 0)
    /\ [][\A r \in AllReqs :
             (AwaitingCallback(r) /\ cbCount'[r] = cbCount[r]) =>
                 ReqState(r)' = ReqState(r)]_vars

\* C14 witness: request 1 still waits for its callback, untouched, while
\* request 2 has been denied through its own
C14_Witness ==
    /\ AwaitingCallback(1) /\ pc[1] = "pending" /\ ret[1].value = Bool(TRUE)
    /\ res[1] = FreshResponse /\ nextCalls[1] = 0
    /\ cbCount[2] = 1 /\ res[2].sends = 1

\* C16: with the callbacks of several requests interleaved, a step changes
\* one request only and never the configuration; and what a request got (its
\* argument list, req.auth, decision, challenge header and body) is what its
\* own credentials, its own callback and the configuration call for.
C16_RequestsAreIndependent ==
    /\ [][phase = "built" =>
             /\ cfg' = cfg /\ options' = options
             /\ \E r \in AllReqs :
                   \A q \in AllReqs \ {r} : ReqState(q)' = ReqState(q)]_vars
    /\ [](\A r \in AllReqs :
             /\ \A i \in DOMAIN calls[r] : calls[r][i] = ExpectedArgs(r)
             /\ calls[r] # <<>> =>
                   reqAuth[r] = [set |-> TRUE, user |-> hdr[r].name,
                                 password |-> hdr[r].pass]
             /\ (cbCount[r] = 1 /\ NoError(cbErr[r])) =>
                   /\ nextCalls[r] = IF Truthy(cbApproved[r]) THEN 1 ELSE 0
                   /\ res[r].sends = IF Truthy(cbApproved[r]) THEN 0 ELSE 1
             /\ (cbCount[r] = 0 \/ ~NoError(cbErr[r])) =>
                   /\ nextCalls[r] = 0
                   /\ res[r].sends = IF MissingCredentials(r) THEN 1 ELSE 0
             /\ res[r].sends >= 1 =>
                   /\ res[r].body = ExpectedBody(r)
                   /\ res[r].challenge = IF Truthy(options.challenge)
                                         THEN Str(ExpectedChallenge) ELSE Undefined)

\* C16 witness: requests 1 and 2 were both pending; the callback of 1
\* rejected a:b and the callback of 2 approved ab:ba
C16_Witness ==
    /\ cbCount[1] = 1 /\ cbCount[2] = 1
    /\ hdr[1].name = Str(<<"a">>) /\ hdr[2].name = Str(<<"a", "b">>)
    /\ nextCalls[1] = 0
    /\ res[1].body = Str(<<"Credentials ", "a", ":", "b", " rejected">>)
    /\ nextCalls[2] = 1 /\ res[2] = FreshResponse


\* the walks of a request through its positions that end in at most one of
\* Allowed and Denied, AuthorizerPending being optional
LegalPaths ==
    {<<"Start">>,
     <<"Start", "CredentialsParsed">>,
     <<"Start", "CredentialsParsed", "Allowed">>,
     <<"Start", "CredentialsParsed", "Denied">>,
     <<"Start", "CredentialsParsed", "AuthorizerPending">>,
     <<"Start", "CredentialsParsed", "AuthorizerPending", "Allowed">>,
     <<"Start", "CredentialsParsed", "AuthorizerPending", "Denied">>}

\* C15: each request moves only along Start -> CredentialsParsed ->
\* (AuthorizerPending, with an asynchronous configuration only) -> Allowed or
\* Denied, and nothing follows Allowed or Denied: they are terminal, with no
\* transition out of them and no retry. (The claim goes on to say that a
\* request whose authorizer answers without an error gets to Allowed or
\* Denied; the walk alone decides it.)
C15_RequestStateMachine ==
    \A r \in AllReqs :
        /\ obs[r].path \in LegalPaths
        /\ (\E i \in DOMAIN obs[r].path : obs[r].path[i] = "AuthorizerPending")
               => cfg.isAsync

\* C17: the step that allows a request (it calls next()) leaves the response
\* as it was, evaluates neither realm nor unauthorizedResponse, has req.auth
\* set to the credentials of the request and calls next() with no arguments;
\* a request allowed by the only answer of its authorizer has a response
\* with no status, header or body.
C17_AllowLeavesResponseAlone ==
    /\ [][\A r \in AllReqs :
             nextCalls'[r] # nextCalls[r] =>
                 /\ nextCalls'[r] = nextCalls[r] + 1
                 /\ obs'[r].nextArgs = Append(obs[r].nextArgs, <<>>)
                 /\ res'[r] = res[r]
                 /\ obs'[r].realmEvals = obs[r].realmEvals
                 /\ obs'[r].bodyEvals = obs[r].bodyEvals
                 /\ reqAuth'[r] = [set |-> TRUE, user |-> hdr'[r].name,
                                   password |-> hdr'[r].pass]
                 /\ obs'[r].writes = 1]_vars
    /\ [](\A r \in AllReqs :
             (phase = "built" /\ pc[r] # "start" /\ CalledBackProperly(r)
                 /\ Approves(r)) =>
                 /\ res[r] = FreshResponse
                 /\ obs[r].realmEvals = 0 /\ obs[r].bodyEvals = 0
                 /\ nextCalls[r] = 1 /\ obs[r].nextArgs = << <<>> >>)

\* C17 witness: a synchronous authorizer approved a:b under a configuration
\* with a realm function and an unauthorizedResponse function; next() was
\* called with no arguments and the response is untouched
C17_Witness ==
    \E r \in AllReqs :
        /\ ~cfg.isAsync /\ pc[r] = "allowed"
        /\ options.realm = RealmBlaFn
        /\ options.unauthorizedResponse = GetUnauthorizedResponseFn
        /\ reqAuth[r] = [set |-> TRUE, user |-> Str(<<"a">>), password |-> Str(<<"b">>)]
        /\ nextCalls[r] = 1 /\ obs[r].nextArgs = << <<>> >>
        /\ res[r] = FreshResponse /\ obs[r].realmEvals = 0 /\ obs[r].bodyEvals = 0

\* C18: every error-free call of the callback of a request, whatever came
\* before it, does one terminal action: next() when approved is truthy, a 401
\* response otherwise; so the terminal actions and the exceptions of a
\* request add up to the calls of its callback (and the throw of its
\* authorizer, if it threw).
C18_EveryCallbackActs ==
    /\ [][\A r \in AllReqs :
             (cbCount'[r] = cbCount[r] + 1 /\ NoError(cbErr'[r])) =>
                 IF Truthy(cbApproved'[r])
                 THEN /\ nextCalls'[r] = nextCalls[r] + 1
                      /\ res'[r] = res[r]
                 ELSE /\ res'[r].sends = res[r].sends + 1
                      /\ res'[r].status = 401
                      /\ nextCalls'[r] = nextCalls[r]]_vars
    /\ [](\A r \in AllReqs :
             (phase = "built" /\ cfg.isAsync /\ calls[r] # <<>>) =>
                 nextCalls[r] + res[r].sends + thrown[r]
                     = cbCount[r] + (IF ret[r].threw THEN 1 ELSE 0))

\* C18 witness: two error-free callbacks for one request, the first approving
\* and the second not: next() was called and then a 401 was sent
C18_Witness ==
    \E r \in AllReqs :
        /\ cbCount[r] = 2 /\ thrown[r] = 0
        /\ nextCalls[r] = 1 /\ res[r].sends = 1 /\ res[r].status = 401
        /\ obs[r].path = <<"Start", "CredentialsParsed", "AuthorizerPending",
                           "Allowed", "Denied">>

=============================================================================
